---- MODULE Spec2Model ----
(***************************************************************************)
(* Model of goban.py: class Goban, a read-only board of '.', 'o' and '#'   *)
(* with a status lookup (get_status) and a recursive liberty check         *)
(* (is_taken) that threads a mutable set of checked points.                *)
(*                                                                         *)
(* Python coordinates are 0-based; the sequences here are 1-based, so      *)
(* goban[y][x] of the source is item(item(goban, y), x) below.             *)
(* The iteration order of a Python set is not specified by the language:   *)
(* the element the for-loop of is_taken meets first is a nondeterministic  *)
(* choice among the members of the set.                                    *)
(***************************************************************************)
EXTENDS Integers, Sequences, FiniteSets

VARIABLES
    goban,           \* self.goban: a sequence of rows, each a sequence of symbols
    pc,              \* "idle", "invoke" (an is_taken invocation is pending),
                     \* "returned", "status_returned", "status_raised"
    start,           \* <<x, y>> of the top-level call
    x, y,            \* arguments of the pending (or last) is_taken invocation
    checked_points,  \* argument / local checked_points: [none, elems]
    supplied,        \* the accumulator as the top-level caller passed it: [none, elems]
    caller,          \* the caller's accumulator object as it is now: [none, elems]
    shared,          \* TRUE iff checked_points is the caller's set object
    result,          \* value returned by is_taken (meaningful when pc = "returned")
    calls,           \* number of is_taken invocations of this top-level call
    stepped,         \* coordinates is_taken has been invoked on
    status_out       \* outcome of the last get_status call

vars == <<goban, pc, start, x, y, checked_points, supplied, caller, shared,
          result, calls, stepped, status_out>>

----------------------------------------------------------------------------
(* Bounds of the model *)

\* a board has at most MaxCells cells (width * height), and at most MaxCells rows
MaxCells == 6

\* the same, for the boards of the calls that pass an accumulator of their own
AccCells == 5

\* the same, for the boards get_status is called on, malformed symbols included
StatusCells == 5

----------------------------------------------------------------------------
(* class Status *)

WHITE == "WHITE"
BLACK == "BLACK"
EMPTY == "EMPTY"
OUT == "OUT"

\* outcomes of get_status that are exceptions, not a Status
ValueError == "ValueError"
IndexError == "IndexError"

----------------------------------------------------------------------------
(* Python sequence indexing: s[i], negative i counting from the end *)

InRange(s, i) == -Len(s) <= i /\ i < Len(s)

item(s, i) == IF i < 0 THEN s[Len(s) + i + 1] ELSE s[i + 1]

----------------------------------------------------------------------------
(* Goban._position_is_out_of_bound *)

_position_is_out_of_bound_no_lower(g, px, py) ==
    \/ g = << >>
    \/ py >= Len(g)
    \/ px >= Len(g[1])

_position_is_out_of_bound(g, px, py) ==
    \/ g = << >>
    \/ px < 0
    \/ py < 0
    \/ py >= Len(g)
    \/ px >= Len(g[1])

(* Goban.get_status *)

symbol_status(c) ==
    IF c = "." THEN EMPTY
    ELSE IF c = "o" THEN WHITE
    ELSE IF c = "#" THEN BLACK
    ELSE ValueError

get_status(g, px, py) ==
    IF _position_is_out_of_bound(g, px, py) THEN OUT
    ELSE IF ~InRange(g, py) THEN IndexError
    ELSE IF ~InRange(item(g, py), px) THEN IndexError
    ELSE symbol_status(item(item(g, py), px))

----------------------------------------------------------------------------
(* Goban._adjacent_valid_positions *)

potential_move_position(px, py) ==
    {<<px - 1, py>>, <<px + 1, py>>, <<px, py - 1>>, <<px, py + 1>>}

_adjacent_valid_positions_any_colour(g, px, py) ==
    {p \in potential_move_position(px, py) :
        /\ ~_position_is_out_of_bound(g, p[1], p[2])
        /\ get_status(g, p[1], p[2]) \in {EMPTY, WHITE, BLACK}}

_adjacent_valid_positions(g, px, py) ==
    {p \in potential_move_position(px, py) :
        /\ ~_position_is_out_of_bound(g, p[1], p[2])
        /\ get_status(g, p[1], p[2]) \in {EMPTY, get_status(g, px, py)}}

----------------------------------------------------------------------------
(* Goban.is_taken, piece by piece *)

\* line 50: current_position_status not in (Status.BLACK, Status.WHITE)
not_a_colour_empty_passes(s) == s \notin {BLACK, WHITE, EMPTY}

not_a_colour(s) == s \notin {BLACK, WHITE}

\* line 54: checked_points or set()  -- None and the empty set are both falsy
NoneAcc == [none |-> TRUE, elems |-> {}]
SetAcc(S) == [none |-> FALSE, elems |-> S]

is_falsy(cp) == cp.none \/ cp.elems = {}

\* lines 54-56: the set the invocation works on, after checked_points.add((x, y))
added(cp, px, py) == (IF is_falsy(cp) THEN {} ELSE cp.elems) \cup {<<px, py>>}

\* lines 60-63: any(get_status(*position) == Status.EMPTY for position in adjacent)
any_empty_never(g, adj) == FALSE

any_empty(g, adj) == \E p \in adj : get_status(g, p[1], p[2]) = EMPTY

\* line 67: adjacent_valid_positions - checked_points
unchecked_all(adj, cp) == adj

unchecked(adj, cp) == adj \ cp

----------------------------------------------------------------------------
(* Inputs *)

Symbols == {".", "o", "#"}

\* "x" stands for every symbol get_status does not know
AnySymbols == Symbols \cup {"x"}

\* rectangular boards of h rows of w symbols, h <= n and h * w <= n
Boards(syms, n) ==
    UNION {[1..d[1] -> [1..d[2] -> syms]] :
            d \in {e \in (0..n) \X (0..n) : e[1] * e[2] <= n}}

Height(g) == Len(g)
Width(g) == IF g = << >> THEN 0 ELSE Len(g[1])

Cells(g) == (0..(Width(g) - 1)) \X (0..(Height(g) - 1))

\* coordinates a caller passes: the board and one step around it
Coords(g) == (-1..Width(g)) \X (-1..Height(g))

\* accumulators a caller passes: none, an empty set, or a set of one cell
Accumulators(g) == {NoneAcc, SetAcc({})} \cup {SetAcc({p}) : p \in Cells(g)}

----------------------------------------------------------------------------
(* Initial states *)

Idle ==
    /\ pc = "idle"
    /\ start = <<0, 0>>
    /\ x = 0
    /\ y = 0
    /\ checked_points = NoneAcc
    /\ supplied = NoneAcc
    /\ caller = NoneAcc
    /\ shared = FALSE
    /\ result = FALSE
    /\ calls = 0
    /\ stepped = {}
    /\ status_out = OUT

\* well-formed boards, for calls of is_taken without an accumulator
Init ==
    /\ goban \in Boards(Symbols, MaxCells)
    /\ Idle

\* well-formed boards, for calls of is_taken that may pass an accumulator
InitAcc ==
    /\ goban \in Boards(Symbols, AccCells)
    /\ Idle

\* boards that may hold unknown symbols, for calls of get_status
InitStatus ==
    /\ goban \in Boards(AnySymbols, StatusCells)
    /\ Idle

----------------------------------------------------------------------------
(* Actions of is_taken *)

\* the top-level call is_taken(cx, cy, acc)
Call(cx, cy, acc) ==
    /\ pc = "idle"
    /\ pc' = "invoke"
    /\ start' = <<cx, cy>>
    /\ x' = cx
    /\ y' = cy
    /\ checked_points' = acc
    /\ supplied' = acc
    /\ caller' = acc
    /\ shared' = ~acc.none
    /\ UNCHANGED <<goban, result, calls, stepped, status_out>>

\* state every invocation on a stone leaves behind (lines 54-56)
Mark ==
    /\ checked_points' = SetAcc(added(checked_points, x, y))
    /\ shared' = (shared /\ ~is_falsy(checked_points))
    /\ caller' = IF shared' THEN checked_points' ELSE caller
    /\ calls' = calls + 1
    /\ stepped' = stepped \cup {<<x, y>>}

\* lines 48-52: only colours can be taken
ReturnNotStone ==
    /\ pc = "invoke"
    /\ not_a_colour(get_status(goban, x, y))
    /\ pc' = "returned"
    /\ result' = FALSE
    /\ calls' = calls + 1
    /\ stepped' = stepped \cup {<<x, y>>}
    /\ UNCHANGED <<goban, start, x, y, checked_points, supplied, caller, shared, status_out>>

\* lines 54-65: an adjacent point is empty
ReturnLiberty ==
    /\ pc = "invoke"
    /\ ~not_a_colour(get_status(goban, x, y))
    /\ any_empty(goban, _adjacent_valid_positions(goban, x, y))
    /\ Mark
    /\ pc' = "returned"
    /\ result' = FALSE
    /\ UNCHANGED <<goban, start, x, y, supplied, status_out>>

\* lines 67-70: return the result of the first unchecked adjacent position
Recurse ==
    /\ pc = "invoke"
    /\ ~not_a_colour(get_status(goban, x, y))
    /\ ~any_empty(goban, _adjacent_valid_positions(goban, x, y))
    /\ Mark
    /\ \E p \in unchecked(_adjacent_valid_positions(goban, x, y),
                          added(checked_points, x, y)) :
          /\ x' = p[1]
          /\ y' = p[2]
    /\ UNCHANGED <<goban, pc, start, supplied, result, status_out>>

\* line 72: nothing left to check
ReturnTaken ==
    /\ pc = "invoke"
    /\ ~not_a_colour(get_status(goban, x, y))
    /\ ~any_empty(goban, _adjacent_valid_positions(goban, x, y))
    /\ unchecked(_adjacent_valid_positions(goban, x, y),
                 added(checked_points, x, y)) = {}
    /\ Mark
    /\ pc' = "returned"
    /\ result' = TRUE
    /\ UNCHANGED <<goban, start, x, y, supplied, status_out>>

\* is_taken(x, y): no accumulator passed
TopLevelCall ==
    \E c \in Coords(goban) : Call(c[1], c[2], NoneAcc)

\* is_taken(x, y, checked_points=acc)
TopLevelCallAcc ==
    \E c \in Coords(goban) : \E acc \in Accumulators(goban) : Call(c[1], c[2], acc)

Next ==
    \/ TopLevelCall
    \/ ReturnNotStone
    \/ ReturnLiberty
    \/ Recurse
    \/ ReturnTaken

Spec == Init /\ [][Next]_vars

NextAcc ==
    \/ TopLevelCallAcc
    \/ ReturnNotStone
    \/ ReturnLiberty
    \/ Recurse
    \/ ReturnTaken

SpecAcc == InitAcc /\ [][NextAcc]_vars

----------------------------------------------------------------------------
(* Actions of get_status *)

StatusCall(cx, cy) ==
    /\ pc = "idle"
    /\ x' = cx
    /\ y' = cy
    /\ status_out' = get_status(goban, cx, cy)
    /\ UNCHANGED <<goban, start, checked_points, supplied, caller, shared,
                   result, calls, stepped>>

\* lines 31-38: a Status is returned
StatusReturns ==
    \E c \in Coords(goban) :
        /\ StatusCall(c[1], c[2])
        /\ status_out' \in {OUT, EMPTY, WHITE, BLACK}
        /\ pc' = "status_returned"

\* line 39 (or an index out of range): an exception leaves get_status
StatusRaises ==
    \E c \in Coords(goban) :
        /\ StatusCall(c[1], c[2])
        /\ status_out' \in {ValueError, IndexError}
        /\ pc' = "status_raised"

NextStatus ==
    \/ StatusReturns
    \/ StatusRaises

SpecStatus == InitStatus /\ [][NextStatus]_vars

----------------------------------------------------------------------------
(* is_taken as a function: the set of values a call may return, one for    *)
(* every order in which the for-loop of line 67 may meet the positions     *)

RECURSIVE is_taken_results(_, _, _, _)
is_taken_results(g, px, py, cp) ==
    IF not_a_colour(get_status(g, px, py)) THEN {FALSE}
    ELSE LET cps == added(cp, px, py)
             adj == _adjacent_valid_positions(g, px, py)
         IN  IF any_empty(g, adj) THEN {FALSE}
             ELSE IF unchecked(adj, cps) = {} THEN {TRUE}
             ELSE UNION {is_taken_results(g, p[1], p[2], SetAcc(cps)) :
                            p \in unchecked(adj, cps)}

----------------------------------------------------------------------------
(* Notions the properties are stated in: read off the board itself *)

InBoard(g, p) == p \in Cells(g)

\* the stored symbol of an in-board coordinate
Sym(g, p) == g[p[2] + 1][p[1] + 1]

IsStone(g, p) == InBoard(g, p) /\ Sym(g, p) \in {"o", "#"}

Orth(p) == {<<p[1] - 1, p[2]>>, <<p[1] + 1, p[2]>>, <<p[1], p[2] - 1>>, <<p[1], p[2] + 1>>}

HasEmptyNeighbour(g, p) == \E q \in Orth(p) : InBoard(g, q) /\ Sym(g, q) = "."

RECURSIVE Grow(_, _)
Grow(g, S) ==
    LET N == S \cup {q \in Cells(g) : \E s \in S : q \in Orth(s) /\ Sym(g, q) = Sym(g, s)}
    IN  IF N = S THEN S ELSE Grow(g, N)

\* the maximal orthogonally connected same-colour group of the stone p
Group(g, p) == Grow(g, {p})

GroupHasLiberty(g, p) == \E s \in Group(g, p) : HasEmptyNeighbour(g, s)

Max(a, b) == IF a >= b THEN a ELSE b

Returned == pc = "returned"

----------------------------------------------------------------------------
(* Properties *)

\* C1: a top-level is_taken(x, y) on a stone, without an accumulator, returns
\* True if and only if no stone of the group of (x, y) has an empty
\* orthogonal neighbour.
C1_ExactGroupVerdict ==
    (Returned /\ IsStone(goban, start)) => (result = ~GroupHasLiberty(goban, start))

\* C2: is_taken returns the same value from every stone of one group: the
\* value returned from the start stone is the only value a call from any
\* stone of its group can return.
C2_Symmetry ==
    (Returned /\ IsStone(goban, start)) =>
        \A q \in Group(goban, start) :
            is_taken_results(goban, q[1], q[2], NoneAcc) = {result}

\* C3 as claimed: the number of invocations of is_taken of one top-level call
\* never exceeds width * height.
C3_WithinWidthTimesHeight == calls <= Width(goban) * Height(goban)

\* C3 as amended: every top-level call returns, in at most
\* max(1, width * height) invocations: each invocation is on a coordinate no
\* earlier one was on, a pending invocation is still within the budget and
\* can always be carried out.
C3_Terminates ==
    /\ calls <= Max(1, Width(goban) * Height(goban))
    /\ calls = Cardinality(stepped)
    /\ pc = "invoke" =>
        /\ calls < Max(1, Width(goban) * Height(goban))
        /\ <<x, y>> \notin stepped
        /\ ENABLED (ReturnNotStone \/ ReturnLiberty \/ Recurse \/ ReturnTaken)

C3_Witness ==
    /\ Returned
    /\ result
    /\ calls = 4
    /\ Group(goban, start) = Cells(goban)
    /\ Width(goban) = 2

\* C4: get_status returns OUT exactly for a board without rows or a coordinate
\* outside [0, width) x [0, height), width being the length of the first row;
\* in bounds it returns EMPTY for '.', WHITE for 'o', BLACK for '#', and
\* raises exactly when the stored symbol is none of the three; the board is
\* never changed.
C4_StatusLookup ==
    /\ [](pc \in {"status_returned", "status_raised"} =>
            LET inb == /\ Height(goban) > 0
                       /\ 0 <= x /\ x < Len(goban[1])
                       /\ 0 <= y /\ y < Height(goban)
            IN  /\ (status_out = OUT) <=> ~inb
                /\ (pc = "status_raised") <=> (inb /\ Sym(goban, <<x, y>>) \notin {".", "o", "#"})
                /\ (pc = "status_raised") => (status_out = ValueError)
                /\ (inb /\ Sym(goban, <<x, y>>) = ".") => (status_out = EMPTY)
                /\ (inb /\ Sym(goban, <<x, y>>) = "o") => (status_out = WHITE)
                /\ (inb /\ Sym(goban, <<x, y>>) = "#") => (status_out = BLACK))
    /\ [][goban' = goban]_vars

C4_Witness ==
    /\ pc = "status_raised"
    /\ Height(goban) = 2
    /\ x = 1 /\ y = 1
    /\ Sym(goban, <<0, 0>>) = "#"

\* C5: on a coordinate that is empty or out of bounds (any coordinate of a
\* board without rows included) is_taken returns False in its first
\* invocation, whatever accumulator is passed, and leaves the accumulator as
\* it was passed.
C5_NonStone ==
    (Returned /\ ~IsStone(goban, start)) =>
        /\ result = FALSE
        /\ calls = 1
        /\ caller = supplied
        /\ checked_points = supplied

C5_Witness ==
    /\ Returned
    /\ InBoard(goban, start)
    /\ Sym(goban, start) = "."
    /\ supplied.elems # {}
    /\ start \notin supplied.elems
    /\ \E q \in Orth(start) : IsStone(goban, q)

\* C6: when an in-bounds orthogonal neighbour of (x, y) is empty, is_taken(x, y)
\* returns False in that very invocation, whatever the accumulator holds.
C6_LibertyShortCircuit ==
    /\ (Returned /\ HasEmptyNeighbour(goban, start)) => (result = FALSE /\ calls = 1)
    /\ (Returned /\ HasEmptyNeighbour(goban, <<x, y>>)) => (result = FALSE)

C6_Witness ==
    /\ Returned
    /\ IsStone(goban, start)
    /\ \E q \in Orth(start) :
        /\ InBoard(goban, q)
        /\ Sym(goban, q) = "."
        /\ q \in supplied.elems
    /\ \E q \in Orth(start) : IsStone(goban, q) /\ Sym(goban, q) = Sym(goban, start)

\* C7: the value a top-level call returns does not depend on which unchecked
\* adjacent position the loop meets first: the value returned is the only one
\* the call can return.
C7_ChoiceIndependent ==
    Returned => (is_taken_results(goban, start[1], start[2], NoneAcc) = {result})

\* C8: when a top-level call without an accumulator returns True, the checked
\* points hold every stone of the group of (x, y).
C8_ExhaustedBeforeTrue ==
    (Returned /\ result /\ IsStone(goban, start)) =>
        (Group(goban, start) \subseteq checked_points.elems)

\* C9: after is_taken(x, y, acc) on a stone, the set the caller passed, empty
\* or not, holds (x, y) and every coordinate is_taken was invoked on, and has
\* only grown; the board is as it was.
C9_CallerAccumulatorFilled ==
    (Returned /\ IsStone(goban, start) /\ ~supplied.none) =>
        /\ start \in caller.elems
        /\ stepped \subseteq caller.elems
        /\ supplied.elems \subseteq caller.elems

\* C10: in a top-level call on a stone without an accumulator, every checked
\* point and every coordinate is_taken is invoked on is a stone of the group
\* of (x, y), and a False result means some stone of that group has an empty
\* orthogonal neighbour.
C10_StaysInGroup ==
    (pc \in {"invoke", "returned"} /\ IsStone(goban, start)) =>
        /\ checked_points.elems \subseteq Group(goban, start)
        /\ stepped \subseteq Group(goban, start)
        /\ <<x, y>> \in Group(goban, start)
        /\ (Returned /\ ~result) => GroupHasLiberty(goban, start)

C10_Witness ==
    /\ Returned
    /\ ~result
    /\ calls = 3
    /\ ~HasEmptyNeighbour(goban, start)
    /\ \E q \in Orth(start) : IsStone(goban, q) /\ Sym(goban, q) # Sym(goban, start)

====
